---- MODULE Spec2Model ----
(***************************************************************************)
(* Model of internal/ebpf/c/tcpretrans.bpf.c: the kprobe on                *)
(* tcp_retransmit_skb, the helper read_sock_common that fills one struct   *)
(* event from the socket's sock_common, and the per-CPU perf event array   *)
(* "events" the record is written to.                                      *)
(*                                                                         *)
(* Each CPU runs the probe as a little sequential program                  *)
(*   idle -> call -> (output ->) ret -> idle                               *)
(* so that invocations on different CPUs and consumer reads interleave.    *)
(* 64-bit values are kept as a record of two 32-bit halves, and every      *)
(* 32-bit value used is below 2^31.                                        *)
(***************************************************************************)
EXTENDS Integers, Sequences, FiniteSets

VARIABLES
    pc,        \* pc[c]: where CPU c's probe invocation stands
    sk,        \* sk[c]: the sock_common the kernel handed to the probe on CPU c
    skb,       \* skb[c]: the segment buffer argument (never dereferenced)
    task,      \* task[c]: the task scheduled on CPU c ("current")
    e,         \* e[c]: the stack-allocated struct event of the invocation
    assigned,  \* assigned[c]: fields of e[c] the probe has stored to so far
    failed,    \* failed[c]: sock_common fields whose BPF_CORE_READ failed
    emitted,   \* emitted[c]: records the invocation has put in the channel
    sawfull,   \* sawfull[c]: the invocation found its CPU's buffer full
    ret,       \* ret[c]: value the last completed invocation returned, -1 while running
    buf,       \* buf[c]: CPU c's slot of the perf event array, oldest first
    pending    \* pending[c]: what CPU c's invocations wrote and nobody read yet,
               \*             each with the socket it was captured from

vars == <<pc, sk, skb, task, e, assigned, failed, emitted, sawfull, ret, buf, pending>>

---------------------------------------------------------------------------
\* Bounds and input sets

\* Records one CPU's perf buffer holds before bpf_perf_event_output drops.
Cap == 2

CPUs == {0, 1}

AF_INET == 2
AF_INET6 == 10

\* sizeof(e->comm)
COMM_LEN == 16

\* Address and port values as a little-endian host sees the big-endian fields:
\* 127.0.0.1 is 0x0100007F, 127.0.0.2 is 0x0200007F, port 40000 (0x9C40) is
\* 0x409C, port 443 (0x01BB) is 0xBB01.
SockV4 ==
    [skc_family |-> AF_INET, skc_rcv_saddr |-> 16777343, skc_daddr |-> 33554559,
     skc_num |-> 5000, skc_dport |-> 16540, skc_state |-> 1]

SockV6 ==
    [skc_family |-> AF_INET6, skc_rcv_saddr |-> 0, skc_daddr |-> 0,
     skc_num |-> 8443, skc_dport |-> 47873, skc_state |-> 1]

\* A socket of family 1 (AF_UNIX): neither AF_INET nor AF_INET6.
SockOther ==
    [skc_family |-> 1, skc_rcv_saddr |-> 0, skc_daddr |-> 0,
     skc_num |-> 7, skc_dport |-> 1792, skc_state |-> 7]

\* A user task ("curl") and the idle task of softirq context ("swapper/0").
TaskCurl ==
    [pid_tgid |-> [hi |-> 4242, lo |-> 4243], comm |-> <<99, 117, 114, 108>>]

TaskSwapper ==
    [pid_tgid |-> [hi |-> 0, lo |-> 0],
     comm |-> <<115, 119, 97, 112, 112, 101, 114, 47, 48>>]

SockFields ==
    {"skc_family", "skc_rcv_saddr", "skc_daddr", "skc_num", "skc_dport", "skc_state"}

EventFields ==
    {"pid", "saddr", "daddr", "lport", "dport", "state", "type", "comm"}

\* Which reads fail in one invocation: none, or exactly one field.
FailSets == {{}} \cup {{f} : f \in SockFields}

Sockets == {SockV4, SockV6, SockOther}
Tasks == {TaskCurl, TaskSwapper}
Skbs == {1}

\* The inputs of the multiprocessor specification.
SMPSockets == {SockV4, SockV6}
SMPFailSets == {{}, {"skc_family"}}
SMPSkbs == {1, 2}

---------------------------------------------------------------------------
\* The probe's functions

\* struct event e = {};
EventZero ==
    [pid |-> 0, saddr |-> 0, daddr |-> 0, lport |-> 0, dport |-> 0,
     state |-> 0, type |-> 0, comm |-> <<>>]

U8(x) == x % 256
U16(x) == x % 65536

\* x >> 32 of a 64-bit value
Shr32(x) == x.hi

\* bpf_ntohs on a little-endian target: swap the two bytes
Ntohs(x) == (x % 256) * 256 + (x \div 256)

\* bpf_get_current_comm(&e->comm, sizeof(e->comm)): at most size-1 bytes
\* of the task's name, then NULs
GetCurrentComm(t, size) ==
    IF Len(t.comm) < size THEN t.comm ELSE SubSeq(t.comm, 1, size - 1)

\* BPF_CORE_READ(skc, f): the field, or 0 when the probe read faults (the
\* helper zero-fills the destination and its error is not looked at)
CoreRead(skc, f, fail) == IF f \in fail THEN 0 ELSE skc[f]

\* lines 27-28: the identity of the current task
ReadTask(t, e0) ==
    [e0 EXCEPT !.pid = Shr32(t.pid_tgid), !.comm = GetCurrentComm(t, COMM_LEN)]

\* lines 31-34: the IPv4 branch
ReadV4(skc, e0, fail) ==
    [e |-> [e0 EXCEPT !.type = U8(1),
                      !.saddr = CoreRead(skc, "skc_rcv_saddr", fail),
                      !.daddr = CoreRead(skc, "skc_daddr", fail)],
     reads |-> {"skc_rcv_saddr", "skc_daddr"},
     stores |-> {"type", "saddr", "daddr"}]

\* Variant: the IPv6 branch returns 1 instead of 0.
ReadV6Emits(e0) ==
    [e |-> [e0 EXCEPT !.type = U8(2)], rc |-> 1, reads |-> {}, stores |-> {"type"}]

\* lines 35-39: the IPv6 branch marks the record and gives up
ReadV6(e0) ==
    [e |-> [e0 EXCEPT !.type = U8(2)], rc |-> 0, reads |-> {}, stores |-> {"type"}]

\* lines 40-42: any other family
ReadOther(e0) ==
    [e |-> e0, rc |-> 0, reads |-> {}, stores |-> {}]

\* Variant: the IPv4 path ends in return 0.
ReadPortsRefuses(skc, e0, fail) ==
    LET e1 == [e0 EXCEPT !.lport = U16(CoreRead(skc, "skc_num", fail)),
                         !.dport = U16(CoreRead(skc, "skc_dport", fail))]
        e2 == [e1 EXCEPT !.dport = Ntohs(e1.dport)]
        e3 == [e2 EXCEPT !.state = CoreRead(skc, "skc_state", fail)]
    IN [e |-> e3, rc |-> 0,
        reads |-> {"skc_num", "skc_dport", "skc_state"},
        stores |-> {"lport", "dport", "state"}]

\* Variant: the read of skc_state is left out.
ReadPortsNoState(skc, e0, fail) ==
    LET e1 == [e0 EXCEPT !.lport = U16(CoreRead(skc, "skc_num", fail)),
                         !.dport = U16(CoreRead(skc, "skc_dport", fail))]
        e2 == [e1 EXCEPT !.dport = Ntohs(e1.dport)]
    IN [e |-> e2, rc |-> 1,
        reads |-> {"skc_num", "skc_dport"},
        stores |-> {"lport", "dport"}]

\* lines 44-50: ports and connection state
ReadPorts(skc, e0, fail) ==
    LET e1 == [e0 EXCEPT !.lport = U16(CoreRead(skc, "skc_num", fail)),
                         !.dport = U16(CoreRead(skc, "skc_dport", fail))]
        e2 == [e1 EXCEPT !.dport = Ntohs(e1.dport)]
        e3 == [e2 EXCEPT !.state = CoreRead(skc, "skc_state", fail)]
    IN [e |-> e3, rc |-> 1,
        reads |-> {"skc_num", "skc_dport", "skc_state"},
        stores |-> {"lport", "dport", "state"}]

\* Variant: the port is byte-swapped in place, in the socket.
SockAfterSwapped(skc, fail) ==
    [skc EXCEPT !.skc_dport = Ntohs(CoreRead(skc, "skc_dport", fail))]

\* The socket after read_sock_common: the function only reads through skc.
SockAfter(skc, fail) == skc

\* read_sock_common(skc, &e) with `fail` the reads that fault: the record,
\* the return value, the fields stored to, the reads that failed among
\* those made, and the socket as the call leaves it.
ReadSockCommon(skc, e0, t, fail) ==
    LET e1 == ReadTask(t, e0)
        family == U16(CoreRead(skc, "skc_family", fail))
        br == IF family = AF_INET
                THEN LET a == ReadV4(skc, e1, fail)
                         p == ReadPorts(skc, a.e, fail)
                     IN [e |-> p.e, rc |-> p.rc,
                         reads |-> a.reads \cup p.reads,
                         stores |-> a.stores \cup p.stores]
                ELSE IF family = AF_INET6 THEN ReadV6(e1) ELSE ReadOther(e1)
    IN [e |-> br.e,
        rc |-> br.rc,
        assigned |-> {"pid", "comm"} \cup br.stores,
        failed |-> fail \cap ({"skc_family"} \cup br.reads),
        skc |-> SockAfter(skc, fail)]

---------------------------------------------------------------------------
\* The delivery channel

RECURSIVE TotalLen(_, _)
TotalLen(b, S) ==
    IF S = {} THEN 0
    ELSE LET c == CHOOSE x \in S : TRUE IN Len(b[c]) + TotalLen(b, S \ {c})

\* Variant: a full buffer overwrites its oldest record.
PerfEventOutputOverwrite(b, cpu, rec) ==
    IF Len(b[cpu]) >= Cap
      THEN [b EXCEPT ![cpu] = Append(Tail(@), rec)]
      ELSE [b EXCEPT ![cpu] = Append(@, rec)]

\* Variant: index 0 instead of BPF_F_CURRENT_CPU.
PerfEventOutputCpu0(b, cpu, rec) ==
    IF Len(b[0]) >= Cap THEN b ELSE [b EXCEPT ![0] = Append(@, rec)]

\* bpf_perf_event_output(ctx, &events, BPF_F_CURRENT_CPU, &e, sizeof(e)):
\* a copy of the record at the tail of the executing CPU's buffer, or
\* nothing when that buffer is full (the helper's -ENOSPC is not looked at)
PerfEventOutput(b, cpu, rec) ==
    IF Len(b[cpu]) >= Cap THEN b ELSE [b EXCEPT ![cpu] = Append(@, rec)]

---------------------------------------------------------------------------
\* Actions

Init ==
    /\ pc = [c \in CPUs |-> "idle"]
    /\ sk = [c \in CPUs |-> SockV4]
    /\ skb = [c \in CPUs |-> 1]
    /\ task = [c \in CPUs |-> TaskSwapper]
    /\ e = [c \in CPUs |-> EventZero]
    /\ assigned = [c \in CPUs |-> {}]
    /\ failed = [c \in CPUs |-> {}]
    /\ emitted = [c \in CPUs |-> 0]
    /\ sawfull = [c \in CPUs |-> FALSE]
    /\ ret = [c \in CPUs |-> 0]
    /\ buf = [c \in CPUs |-> <<>>]
    /\ pending = [c \in CPUs |-> <<>>]

\* The kernel enters tcp_retransmit_skb(sk, skb) on CPU c while task t is
\* current there, and the kprobe fires: struct event e = {}.
Enter(c, S, T, K) ==
    /\ pc[c] = "idle"
    /\ \E s \in S, t \in T, k \in K :
          /\ sk' = [sk EXCEPT ![c] = s]
          /\ task' = [task EXCEPT ![c] = t]
          /\ skb' = [skb EXCEPT ![c] = k]
    /\ pc' = [pc EXCEPT ![c] = "call"]
    /\ e' = [e EXCEPT ![c] = EventZero]
    /\ assigned' = [assigned EXCEPT ![c] = {}]
    /\ failed' = [failed EXCEPT ![c] = {}]
    /\ emitted' = [emitted EXCEPT ![c] = 0]
    /\ sawfull' = [sawfull EXCEPT ![c] = FALSE]
    /\ ret' = [ret EXCEPT ![c] = -1]
    /\ UNCHANGED <<buf, pending>>

\* if (read_sock_common(skc, &e)) ...
ReadStep(c, F) ==
    /\ pc[c] = "call"
    /\ \E fail \in F :
          LET r == ReadSockCommon(sk[c], e[c], task[c], fail) IN
          /\ e' = [e EXCEPT ![c] = r.e]
          /\ assigned' = [assigned EXCEPT ![c] = r.assigned]
          /\ failed' = [failed EXCEPT ![c] = r.failed]
          /\ sk' = [sk EXCEPT ![c] = r.skc]
          /\ pc' = [pc EXCEPT ![c] = IF r.rc # 0 THEN "output" ELSE "ret"]
    /\ UNCHANGED <<skb, task, emitted, sawfull, ret, buf, pending>>

\* Variant: the output call waits for room in the buffer.
OutputBlocking(c) ==
    /\ pc[c] = "output"
    /\ Len(buf[c]) < Cap
    /\ buf' = PerfEventOutput(buf, c, e[c])
    /\ emitted' = [emitted EXCEPT ![c] = TotalLen(buf', CPUs) - TotalLen(buf, CPUs)]
    /\ sawfull' = [sawfull EXCEPT ![c] = Len(buf[c]) >= Cap]
    /\ pending' = [pending EXCEPT ![c] = Append(@, [rec |-> e[c], skc |-> sk[c]])]
    /\ pc' = [pc EXCEPT ![c] = "ret"]
    /\ UNCHANGED <<sk, skb, task, e, assigned, failed, ret>>

\* bpf_perf_event_output(...) on the true branch of the if
Output(c) ==
    /\ pc[c] = "output"
    /\ buf' = PerfEventOutput(buf, c, e[c])
    /\ emitted' = [emitted EXCEPT ![c] = TotalLen(buf', CPUs) - TotalLen(buf, CPUs)]
    /\ sawfull' = [sawfull EXCEPT ![c] = Len(buf[c]) >= Cap]
    /\ pending' = [pending EXCEPT ![c] =
                      IF emitted'[c] > 0
                        THEN Append(@, [rec |-> e[c], skc |-> sk[c]])
                        ELSE @]
    /\ pc' = [pc EXCEPT ![c] = "ret"]
    /\ UNCHANGED <<sk, skb, task, e, assigned, failed, ret>>

\* return 0; the invocation's stack frame is gone
Return(c) ==
    /\ pc[c] = "ret"
    /\ pc' = [pc EXCEPT ![c] = "idle"]
    /\ ret' = [ret EXCEPT ![c] = 0]
    /\ e' = [e EXCEPT ![c] = EventZero]
    /\ assigned' = [assigned EXCEPT ![c] = {}]
    /\ failed' = [failed EXCEPT ![c] = {}]
    /\ emitted' = [emitted EXCEPT ![c] = 0]
    /\ sawfull' = [sawfull EXCEPT ![c] = FALSE]
    /\ UNCHANGED <<sk, skb, task, buf, pending>>

\* The user-space consumer takes the oldest record of CPU c's buffer.
ConsumerRead(c) ==
    /\ buf[c] # <<>>
    /\ buf' = [buf EXCEPT ![c] = Tail(@)]
    /\ pending' = [pending EXCEPT ![c] = IF @ = <<>> THEN @ ELSE Tail(@)]
    /\ UNCHANGED <<pc, sk, skb, task, e, assigned, failed, emitted, sawfull, ret>>

ProbeStep(c, F) == ReadStep(c, F) \/ Output(c) \/ Return(c)

\* One processor, every input: all sockets, tasks and failing reads.
Next ==
    \/ Enter(0, Sockets, Tasks, Skbs)
    \/ ReadStep(0, FailSets)
    \/ Output(0)
    \/ Return(0)
    \/ ConsumerRead(0)

Spec == Init /\ [][Next]_vars

\* An invocation runs to completion: the probe is not preemptible and
\* nothing in it waits.
FairSpec == Spec /\ WF_vars(ProbeStep(0, FailSets))

\* Two processors and the consumer, interleaved.
NextSMP ==
    \E c \in CPUs :
        \/ Enter(c, SMPSockets, Tasks, SMPSkbs)
        \/ ReadStep(c, SMPFailSets)
        \/ Output(c)
        \/ Return(c)
        \/ ConsumerRead(c)

SpecSMP == Init /\ [][NextSMP]_vars

---------------------------------------------------------------------------
\* Properties

\* A step of CPU c's probe (after entry): it moves pc[c] on.
ProbeMoved(c) == pc[c] \in {"call", "output", "ret"} /\ pc'[c] # pc[c]

\* The record parts of what CPU c wrote and nobody has read yet.
PendingRecs(c) == [i \in 1..Len(pending[c]) |-> pending[c][i].rec]

AddrPortReads == {"skc_rcv_saddr", "skc_daddr", "skc_num", "skc_dport"}

\* C1 as stated: an invocation on an IPv4 socket has, when it is about to
\* return, put exactly one record in the channel, and the record's tag is 1.
C1_ExactlyOnePerIPv4 ==
    \A c \in CPUs :
        (pc[c] = "ret" /\ sk[c].skc_family = AF_INET)
            => (emitted[c] = 1 /\ e[c].type = 1)

\* C1 amended: an invocation on an IPv4 socket puts at most one record in
\* the channel; it puts exactly one, with tag 1, when the read of the family
\* succeeded and the executing CPU's buffer was not full, and none otherwise.
C1_OneUnlessFullOrUnread ==
    \A c \in CPUs :
        (pc[c] = "ret" /\ sk[c].skc_family = AF_INET)
            => /\ emitted[c] =
                    (IF "skc_family" \in failed[c] \/ sawfull[c] THEN 0 ELSE 1)
               /\ (emitted[c] = 1 => e[c].type = 1)

C1_Witness ==
    /\ pc[0] = "ret"
    /\ sk[0].skc_family = AF_INET
    /\ emitted[0] = 1
    /\ e[0].type = 1
    /\ Len(buf[0]) = Cap

\* C2: an invocation on a socket of any family other than IPv4 never reaches
\* the output call and puts no record in the channel, and every record in
\* the channel carries tag 1.
C2_OnlyIPv4Emitted ==
    /\ \A c \in CPUs :
          sk[c].skc_family # AF_INET
              => /\ pc[c] # "output"
                 /\ (pc[c] = "ret" => emitted[c] = 0)
    /\ \A c \in CPUs : \A i \in 1..Len(buf[c]) : buf[c][i].type = 1

C2_Witness ==
    /\ pc[0] = "ret"
    /\ sk[0].skc_family = AF_INET6
    /\ e[0].type = 2
    /\ emitted[0] = 0
    /\ Len(buf[0]) = 1

\* C3: a buffer grows only by the output call appending the invocation's one
\* record, and only when the probe has stored to every field of it; an
\* invocation that read_sock_common refuses (the IPv6 path has stored pid,
\* comm and tag by then) leaves every buffer as it was and emits nothing.
C3_AllOrNothing ==
    [][\A c \in CPUs :
          /\ (Len(buf'[c]) > Len(buf[c]))
                => /\ pc[c] = "output"
                   /\ assigned[c] = EventFields
                   /\ buf'[c] = Append(buf[c], e[c])
          /\ (pc[c] = "call" /\ pc'[c] = "ret")
                => /\ buf' = buf
                   /\ emitted'[c] = 0
          /\ (pc[c] = "call" /\ pc'[c] = "output")
                => assigned'[c] = EventFields]_vars

C3_Witness ==
    /\ pc[0] = "ret"
    /\ assigned[0] = {"pid", "comm", "type"}
    /\ e[0] = [EventZero EXCEPT !.pid = 4242, !.comm = TaskCurl.comm, !.type = 2]
    /\ emitted[0] = 0
    /\ buf[0] # <<>>

\* C4 as stated: an invocation on an IPv4 socket in which the read of an
\* address or port field failed puts no record in the channel.
C4_NoEmitAfterFailedRead ==
    \A c \in CPUs :
        (pc[c] = "ret" /\ sk[c].skc_family = AF_INET
            /\ failed[c] \cap AddrPortReads # {})
            => emitted[c] = 0

\* C5 as stated: every record in the channel has the byte-swapped skc_dport
\* of the socket it was captured from as its remote port, and that socket's
\* skc_rcv_saddr, skc_daddr and skc_num unchanged.
C5_PortSwappedRestVerbatim ==
    \A c \in CPUs : \A i \in 1..Len(pending[c]) :
        LET p == pending[c][i] IN
        /\ p.rec.dport = (p.skc.skc_dport % 256) * 256 + (p.skc.skc_dport \div 256)
        /\ p.rec.saddr = p.skc.skc_rcv_saddr
        /\ p.rec.daddr = p.skc.skc_daddr
        /\ p.rec.lport = p.skc.skc_num

\* C6: when the executing CPU's buffer is full at the output call, the call
\* leaves every buffer as it was, nothing is emitted, no return value is set
\* and the probe moves on to its return; and the output call is never
\* blocked, whatever the buffer holds.
C6_DropWhenFull ==
    /\ [](\A c \in CPUs : pc[c] = "output" => ENABLED Output(c))
    /\ [][\A c \in CPUs :
             (pc[c] = "output" /\ pc'[c] # pc[c] /\ Len(buf[c]) >= Cap)
                 => /\ buf' = buf
                    /\ emitted'[c] = 0
                    /\ ret' = ret
                    /\ pc'[c] = "ret"]_vars

C6_Witness ==
    /\ pc[0] = "ret"
    /\ sawfull[0]
    /\ emitted[0] = 0
    /\ Len(buf[0]) = Cap

\* C7: each CPU's buffer holds exactly the records that CPU's invocations
\* wrote and the consumer has not read yet, in the order they were written,
\* so the consumer, which takes the oldest, reads them in that order.
C7_PerCpuFifo ==
    \A c \in CPUs : buf[c] = PendingRecs(c)

C7_Witness ==
    /\ Len(buf[0]) = 2
    /\ buf[0][1] # buf[0][2]
    /\ Len(buf[1]) = 2
    /\ buf[1][1] = buf[0][2]
    /\ pc[1] = "output"
    /\ pc[0] = "call"

\* C8: the probe returns 0 whenever it returns, and every invocation that
\* has started gets back to the kernel.
C8_AlwaysReturnsZero ==
    /\ [](\A c \in CPUs : ret[c] \in {-1, 0} /\ (pc[c] = "idle" => ret[c] = 0))
    /\ \A c \in CPUs : (pc[c] # "idle") ~> (pc[c] = "idle" /\ ret[c] = 0)

C8_Witness ==
    /\ pc[0] = "idle"
    /\ ret[0] = 0
    /\ Len(buf[0]) = Cap
    /\ sk[0] = SockOther

\* C9 as stated: two records in the channel captured from the same socket
\* state agree in source address, destination address, local port, remote
\* port, connection state and tag.
C9_SameSocketSameRecord ==
    \A c \in CPUs, d \in CPUs :
        \A i \in 1..Len(pending[c]), j \in 1..Len(pending[d]) :
            LET p == pending[c][i]
                q == pending[d][j]
            IN p.skc = q.skc
                  => /\ p.rec.saddr = q.rec.saddr
                     /\ p.rec.daddr = q.rec.daddr
                     /\ p.rec.lport = q.rec.lport
                     /\ p.rec.dport = q.rec.dport
                     /\ p.rec.state = q.rec.state
                     /\ p.rec.type = q.rec.type

\* C10: a step of the probe leaves the socket, the segment buffer and the
\* current task of every CPU as they were, leaves the other CPUs' buffers as
\* they were, changes its own CPU's buffer by at most one append, and on a
\* socket that is not IPv4 changes no buffer at all.
C10_FrameOfProbe ==
    [][\A c \in CPUs :
          ProbeMoved(c)
              => /\ sk' = sk
                 /\ skb' = skb
                 /\ task' = task
                 /\ \A d \in CPUs \ {c} : buf'[d] = buf[d]
                 /\ (buf'[c] = buf[c] \/ buf'[c] = Append(buf[c], e[c]))
                 /\ (sk[c].skc_family # AF_INET => buf' = buf)]_vars

C10_Witness ==
    /\ pc[0] = "ret"
    /\ sk[0] = SockV6
    /\ skb[0] = 2
    /\ buf[0] # <<>>
    /\ buf[1] # <<>>
    /\ pc[1] = "ret"
    /\ emitted[1] = 1

====
